---- MODULE Spec2Model ----
(***************************************************************************)
(* Model of main.py of the Recipe Search API: the /search handler          *)
(* search_recipes, the image validator validate_image_url and the helper   *)
(* get_domain_name.                                                        *)
(*                                                                         *)
(* A Python str that the code inspects character by character (URLs given  *)
(* to urlparse, content-type headers, decimal numerals) is a sequence of   *)
(* one-character strings.  A str that the code only passes around or tests *)
(* for emptiness (titles, image links, error texts) is a TLA+ string.      *)
(***************************************************************************)
EXTENDS Integers, Sequences, FiniteSets, TLC

VARIABLES pc, data, upstream_calls, idx, results, validation_tasks,
          finished, branch, response, dn_url, dn_pc, dn_out

vars == <<pc, data, upstream_calls, idx, results, validation_tasks,
          finished, branch, response, dn_url, dn_pc, dn_out>>

handler_vars == <<pc, data, upstream_calls, idx, results, branch, response>>

task_vars == <<validation_tasks, finished>>

domain_vars == <<dn_url, dn_pc, dn_out>>

(***************************************************************************)
(* Bounds                                                                  *)
(***************************************************************************)
MaxItems == 3

(***************************************************************************)
(* Python values                                                           *)
(***************************************************************************)
\* dict.get(key, default): a key of a JSON object is present or absent
Absent(d) == [has |-> FALSE, v |-> d]

Present(x) == [has |-> TRUE, v |-> x]

Get(field, default) == IF field.has THEN field.v ELSE default

UpperChars == <<"A","B","C","D","E","F","G","H","I","J","K","L","M",
                "N","O","P","Q","R","S","T","U","V","W","X","Y","Z">>

LowerChars == <<"a","b","c","d","e","f","g","h","i","j","k","l","m",
                "n","o","p","q","r","s","t","u","v","w","x","y","z">>

DigitChars == <<"0","1","2","3","4","5","6","7","8","9">>

Range(s) == {s[i] : i \in 1..Len(s)}

LowerChar(c) ==
    IF \E k \in 1..26 : UpperChars[k] = c
    THEN LowerChars[CHOOSE k \in 1..26 : UpperChars[k] = c]
    ELSE c

\* str.lower()
Lower(s) == [i \in 1..Len(s) |-> LowerChar(s[i])]

\* str.startswith(prefix)
StartsWith(s, prefix) ==
    /\ Len(s) >= Len(prefix)
    /\ SubSeq(s, 1, Len(prefix)) = prefix

\* s[n:]
DropFirst(s, n) == SubSeq(s, n + 1, Len(s))

\* str.find(c), 1-based; 0 when c does not occur
FindChar(s, c) ==
    IF c \in Range(s)
    THEN CHOOSE i \in 1..Len(s) : s[i] = c /\ \A j \in 1..(i - 1) : s[j] # c
    ELSE 0

(***************************************************************************)
(* urllib.parse.urlparse(url).netloc                                       *)
(***************************************************************************)
SchemeChars == Range(UpperChars) \cup Range(LowerChars) \cup Range(DigitChars)
               \cup {"+", "-", "."}

IsAlpha(c) == c \in Range(UpperChars) \cup Range(LowerChars)

\* the part of url left once a leading "scheme:" has been split off
AfterScheme(url) ==
    LET i == FindChar(url, ":")
    IN  IF /\ i > 1
           /\ IsAlpha(url[1])
           /\ \A j \in 1..(i - 1) : url[j] \in SchemeChars
        THEN DropFirst(url, i)
        ELSE url

\* _splitnetloc(url, 2): the text between "//" and the first of "/", "?", "#"
SplitNetloc(rest) ==
    LET stops == {i \in 3..Len(rest) : rest[i] \in {"/", "?", "#"}}
        delim == IF stops = {} THEN Len(rest) + 1
                 ELSE CHOOSE i \in stops : \A j \in stops : i <= j
    IN  SubSeq(rest, 3, delim - 1)

\* raised: urlsplit raises ValueError("Invalid IPv6 URL")
UrlParse(url) ==
    LET rest == AfterScheme(url)
    IN  IF StartsWith(rest, <<"/", "/">>)
        THEN LET netloc == SplitNetloc(rest)
             IN  IF ("[" \in Range(netloc)) # ("]" \in Range(netloc))
                 THEN [raised |-> TRUE, netloc |-> <<>>]
                 ELSE [raised |-> FALSE, netloc |-> netloc]
        ELSE [raised |-> FALSE, netloc |-> <<>>]

Unknown == <<"u","n","k","n","o","w","n">>

Www == <<"w","w","w",".">>

StripWww(domain) ==
    IF StartsWith(domain, Www) THEN DropFirst(domain, 4) ELSE domain

GetDomainName(url) ==
    LET parsed == UrlParse(url)
    IN  IF parsed.raised THEN Unknown ELSE StripWww(Lower(parsed.netloc))

(***************************************************************************)
(* Inputs of get_domain_name: scheme, slashes, host prefix, host, tail     *)
(***************************************************************************)
NotAUrl == <<"n","o","t"," ","a"," ","u","r","l">>

UrlSchemes == { <<>>, <<"h","t","t","p",":">>, <<"H","T","T","P","S",":">>,
                <<"1","h",":">> }

UrlSlashes == { <<>>, <<"/","/">> }

UrlPrefixes == { <<>>, Www, <<"W","w","W",".">>, <<"w","w","w",".","w","w","w",".">> }

UrlHosts == { <<>>, <<"a",".","c">>, <<"A",".","C">>, <<"[","a">>, <<"a","]">>,
              <<"[","a","]">>, <<"u","@","a",".","c",":","8">>,
              NotAUrl }

UrlTails == { <<>>, <<"/","x">>, <<"?","q">>, <<"#","f">> }

DomainInputs ==
    { s \o sl \o p \o h \o t :
        s \in UrlSchemes, sl \in UrlSlashes, p \in UrlPrefixes,
        h \in UrlHosts, t \in UrlTails }

(***************************************************************************)
(* validate_image_url: one coroutine per element of validation_tasks       *)
(***************************************************************************)
ImagePrefix == <<"i","m","a","g","e","/">>

NoOutcome == [kind |-> "none", status |-> 0, ct |-> Absent(<<>>)]

\* the answer of the HEAD request to the proxy
ProbeResponse(status, ct) == [kind |-> "response", status |-> status, ct |-> ct]

\* session.head raised (aiohttp.ClientError) or the 5 s total timeout expired
ProbeRaised(kind) == [kind |-> kind, status |-> 0, ct |-> Absent(<<>>)]

\* validate_image_url with "except Exception: return True"
ValidateResultFailOpen(o) ==
    IF o.kind = "response"
    THEN IF o.status = 200
         THEN StartsWith(Lower(Get(o.ct, <<>>)), ImagePrefix)
         ELSE FALSE
    ELSE TRUE

\* lines 41-50: the value validate_image_url returns for a probe outcome
ValidateResult(o) ==
    IF o.kind = "response"
    THEN IF o.status = 200
         THEN StartsWith(Lower(Get(o.ct, <<>>)), ImagePrefix)
         ELSE FALSE
    ELSE FALSE

\* the coroutine object validate_image_url(image_url), not yet scheduled
NewTask(image_url) ==
    [url |-> image_url, sched |-> FALSE, pc |-> "start", probes |-> 0,
     outcome |-> NoOutcome, result |-> "pending"]

PyBool(b) == IF b THEN "True" ELSE "False"

TaskIds == 1..Len(validation_tasks)

\* lines 35-36: an empty URL is rejected before any request is made
ValidateEmpty(i) ==
    /\ validation_tasks[i].sched
    /\ validation_tasks[i].pc = "start"
    /\ validation_tasks[i].url = ""
    /\ validation_tasks' = [validation_tasks EXCEPT ![i].pc = "done",
                                                    ![i].result = PyBool(FALSE)]
    /\ finished' = Append(finished, i)
    /\ UNCHANGED <<handler_vars, domain_vars>>

\* lines 39-43: the HEAD request to the proxy is sent, the coroutine suspends
ValidateProbe(i) ==
    /\ validation_tasks[i].sched
    /\ validation_tasks[i].pc = "start"
    /\ validation_tasks[i].url # ""
    /\ validation_tasks' = [validation_tasks EXCEPT
                               ![i].pc = "probing",
                               ![i].probes = validation_tasks[i].probes + 1]
    /\ UNCHANGED <<finished, handler_vars, domain_vars>>

\* a failed probe is retried once
ValidateFinishRetry(i, outcomes) ==
    /\ validation_tasks[i].pc = "probing"
    /\ \E o \in outcomes :
          validation_tasks' = [validation_tasks EXCEPT
                                  ![i].pc = IF ValidateResult(o) \/ validation_tasks[i].probes >= 2
                                            THEN "done" ELSE "start",
                                  ![i].outcome = o,
                                  ![i].result = IF ValidateResult(o) \/ validation_tasks[i].probes >= 2
                                                THEN PyBool(ValidateResult(o))
                                                ELSE "pending"]
    /\ finished' = IF validation_tasks'[i].pc = "done"
                   THEN Append(finished, i) ELSE finished
    /\ UNCHANGED <<handler_vars, domain_vars>>

\* lines 43-50: the probe ends with one of outcomes, the coroutine returns
ValidateFinish(i, outcomes) ==
    /\ validation_tasks[i].pc = "probing"
    /\ \E o \in outcomes :
          validation_tasks' = [validation_tasks EXCEPT
                                  ![i].pc = "done",
                                  ![i].outcome = o,
                                  ![i].result = PyBool(ValidateResult(o))]
    /\ finished' = Append(finished, i)
    /\ UNCHANGED <<handler_vars, domain_vars>>

\* asyncio cancels the suspended task: CancelledError is a BaseException,
\* line 49 does not catch it, and gather(return_exceptions=True) stores it
\* as the task's result
TaskCancelled(i) ==
    /\ validation_tasks[i].pc = "probing"
    /\ validation_tasks' = [validation_tasks EXCEPT ![i].pc = "done",
                                                    ![i].result = "Exc"]
    /\ finished' = Append(finished, i)
    /\ UNCHANGED <<handler_vars, domain_vars>>

(***************************************************************************)
(* Probe outcomes                                                          *)
(***************************************************************************)
ContentTypes ==
    { Absent(<<>>),
      Present(<<>>),
      Present(<<"i","m","a","g","e","/","p","n","g">>),
      Present(<<"I","m","a","g","e","/","P","N","G">>),
      Present(<<"i","m","a","g","e","/">>),
      Present(<<"i","m","a","g","e">>),
      Present(<<"t","e","x","t","/","h","t","m","l">>),
      Present(<<"x","i","m","a","g","e","/","p","n","g">>) }

Statuses == {200, 204, 301, 404, 500}

AllProbeOutcomes ==
    { ProbeResponse(st, ct) : st \in Statuses, ct \in ContentTypes }
    \cup { ProbeRaised("network_error"), ProbeRaised("timeout") }

\* the outcomes used when whole requests are explored
ProbeOutcomes ==
    { ProbeResponse(200, Present(<<"i","m","a","g","e","/","p","n","g">>)),
      ProbeResponse(404, Present(<<"i","m","a","g","e","/","p","n","g">>)),
      ProbeRaised("timeout") }

ValidateInputs == {"", "i1", "i2", "i3"}

(***************************************************************************)
(* get_domain_name called on its own                                       *)
(***************************************************************************)
CallGetDomainName ==
    /\ dn_pc = "call"
    /\ dn_out' = GetDomainName(dn_url)
    /\ dn_pc' = "returned"
    /\ UNCHANGED <<dn_url, handler_vars, task_vars>>

(***************************************************************************)
(* Python int() and str() on decimal numerals                              *)
(***************************************************************************)
DigitValue(c) == (CHOOSE k \in 1..10 : DigitChars[k] = c) - 1

RECURSIVE ParseInt(_)
\* int(s) for a string of decimal digits
ParseInt(s) ==
    IF Len(s) = 0 THEN 0
    ELSE 10 * ParseInt(SubSeq(s, 1, Len(s) - 1)) + DigitValue(s[Len(s)])

RECURSIVE Digits(_)
\* str(n) for a non-negative number
Digits(n) ==
    IF n < 10 THEN <<DigitChars[n + 1]>>
    ELSE Digits(n \div 10) \o <<DigitChars[(n % 10) + 1]>>

(***************************************************************************)
(* The upstream answer (Google Custom Search JSON)                         *)
(***************************************************************************)
ContextUrl == <<"h","t","t","p","s",":","/","/","w","w","w",".","a",".","c","/","x">>

Links == { Absent(""), Present("i1"), Present("i2") }

ContextLinks == { Present(<<>>), Present(ContextUrl) }

Items ==
    [title : {Present("pie")}, snippet : {Absent("")},
     link : Links, contextLink : ContextLinks]

RECURSIVE SeqsUpTo(_, _)
SeqsUpTo(S, n) ==
    IF n = 0 THEN {<<>>}
    ELSE LET shorter == SeqsUpTo(S, n - 1)
         IN  shorter \cup {Append(q, x) : q \in shorter, x \in S}

\* totalResults is a string of digits, searchTime a number
TotalResultsValues == { Absent(<<>>), Present(<<"1","2">>) }

SearchTimeValues == { Absent(0), Present(3) }

SearchInformations ==
    [totalResults : TotalResultsValues, searchTime : SearchTimeValues]

UpstreamData ==
    [items : {Absent(<<>>)} \cup {Present(q) : q \in SeqsUpTo(Items, MaxItems)},
     searchInformation : SearchInformations]

NoData ==
    [items |-> Absent(<<>>),
     searchInformation |-> [totalResults |-> Absent(<<>>), searchTime |-> Absent(0)]]

\* requests.get / raise_for_status / response.json raising: the exception
\* class decides the prefix of the detail, str(e) is its text
UpstreamFailures ==
    { [kind |-> "http_error", prefix |-> "Google Search API error: ",
       text |-> "503 Server Error"],
      [kind |-> "network_error", prefix |-> "Google Search API error: ",
       text |-> "Connection refused"],
      [kind |-> "bad_json", prefix |-> "Google Search API error: ",
       text |-> "Expecting value"],
      [kind |-> "bad_json", prefix |-> "Search error: ",
       text |-> "Expecting value"] }

(***************************************************************************)
(* Responses                                                               *)
(***************************************************************************)
NoResponse ==
    [kind |-> "none", status |-> 0, detail |-> "", results |-> <<>>,
     total_results |-> 0, search_time |-> <<>>]

\* SearchResponse(results=..., total_results=..., search_time=...)
SearchResponse(rs, total, time) ==
    [kind |-> "envelope", status |-> 200, detail |-> "", results |-> rs,
     total_results |-> total, search_time |-> time]

\* HTTPException(status_code=500, detail=...), or an exception that leaves
\* the handler and that the server turns into a 500
ErrorResponse(detail) ==
    [kind |-> "error", status |-> 500, detail |-> detail, results |-> <<>>,
     total_results |-> 0, search_time |-> <<>>]

\* SearchResult(title=..., url=..., image=..., source=..., snippet=...)
SearchResult(title, url, image, source, snippet) ==
    [title |-> title, url |-> url, image |-> image, source |-> source,
     snippet |-> snippet]

items == Get(data.items, <<>>)

search_info == data.searchInformation

\* the envelope with total_results=len(results)
FinalResponseCounted(rs) ==
    SearchResponse(rs,
                   Len(rs),
                   IF search_info.searchTime.has
                   THEN Digits(search_info.searchTime.v)
                   ELSE <<"0">>)

\* lines 166-170
FinalResponse(rs) ==
    SearchResponse(rs,
                   IF search_info.totalResults.has
                   THEN ParseInt(search_info.totalResults.v)
                   ELSE Len(rs),
                   IF search_info.searchTime.has
                   THEN Digits(search_info.searchTime.v)
                   ELSE <<"0">>)

\* the filter with "if is_valid:" (an exception object is truthy)
RECURSIVE FilterTruthy(_, _)
FilterTruthy(rs, validation_results) ==
    IF Len(rs) = 0 \/ Len(validation_results) = 0 THEN <<>>
    ELSE LET rest == FilterTruthy(Tail(rs), Tail(validation_results))
         IN  IF Head(validation_results) # "False"
             THEN <<Head(rs)>> \o rest
             ELSE rest

\* lines 154-160: zip(results, validation_results), keep where is_valid is True
RECURSIVE FilterValidated(_, _)
FilterValidated(rs, validation_results) ==
    IF Len(rs) = 0 \/ Len(validation_results) = 0 THEN <<>>
    ELSE LET rest == FilterValidated(Tail(rs), Tail(validation_results))
         IN  IF Head(validation_results) = "True"
             THEN <<Head(rs)>> \o rest
             ELSE rest

(***************************************************************************)
(* search_recipes                                                          *)
(***************************************************************************)
\* the upstream request is sent a second time before the handler gives up
UpstreamFailsRetry ==
    /\ pc = "start"
    /\ upstream_calls' = upstream_calls + 2
    /\ \E f \in UpstreamFailures :
          response' = ErrorResponse(f.prefix \o f.text)
    /\ pc' = "raised"
    /\ UNCHANGED <<data, idx, results, branch, task_vars, domain_vars>>

\* lines 92-101: the upstream request fails
UpstreamFails ==
    /\ pc = "start"
    /\ upstream_calls' = upstream_calls + 1
    /\ \E f \in UpstreamFailures :
          response' = ErrorResponse(f.prefix \o f.text)
    /\ pc' = "raised"
    /\ UNCHANGED <<data, idx, results, branch, task_vars, domain_vars>>

\* lines 92-96: the upstream request succeeds and the body parses
UpstreamReturns ==
    /\ pc = "start"
    /\ upstream_calls' = upstream_calls + 1
    /\ data' \in UpstreamData
    /\ pc' = "parsed"
    /\ UNCHANGED <<idx, results, branch, response, task_vars, domain_vars>>

\* lines 107-112: no items.  search_time receives the raw searchTime: a str
\* field given a number is converted by pydantic 1 and rejected by
\* pydantic 2 (ValidationError, which leaves the handler)
ReturnEmpty ==
    /\ pc = "parsed"
    /\ items = <<>>
    /\ \/ /\ ~search_info.searchTime.has
          /\ response' = SearchResponse(<<>>, 0, <<"0">>)
          /\ pc' = "returned"
       \/ /\ search_info.searchTime.has
          /\ response' = SearchResponse(<<>>, 0, Digits(search_info.searchTime.v))
          /\ pc' = "returned"
       \/ /\ search_info.searchTime.has
          /\ response' = ErrorResponse("Internal Server Error")
          /\ pc' = "raised"
    /\ branch' = "empty"
    /\ UNCHANGED <<data, upstream_calls, idx, results, task_vars, domain_vars>>

\* lines 115-118: the loop over items starts
EnterLoop ==
    /\ pc = "parsed"
    /\ items # <<>>
    /\ results' = <<>>
    /\ validation_tasks' = <<>>
    /\ idx' = 1
    /\ pc' = "loop"
    /\ UNCHANGED <<data, upstream_calls, branch, response, finished, domain_vars>>

AfterItem == IF idx + 1 > Len(items) THEN "gather" ELSE "loop"

\* "if not recipe_url and not google_image"
DiscardsBothMissing(item) ==
    Get(item.contextLink, <<>>) = <<>> /\ Get(item.link, "") = ""

\* lines 129-130
Discards(item) ==
    Get(item.contextLink, <<>>) = <<>> \/ Get(item.link, "") = ""

\* lines 118-130: an item without a context link or an image link is skipped
LoopSkip ==
    /\ pc = "loop"
    /\ Discards(items[idx])
    /\ idx' = idx + 1
    /\ pc' = AfterItem
    /\ UNCHANGED <<data, upstream_calls, results, branch, response, task_vars,
                   domain_vars>>

\* lines 118-147: a candidate and its validation coroutine are appended
LoopAppend ==
    /\ pc = "loop"
    /\ ~Discards(items[idx])
    /\ LET item == items[idx]
           recipe_url == Get(item.contextLink, <<>>)
           google_image == Get(item.link, "")
       IN  /\ results' = Append(results,
                            SearchResult(Get(item.title, ""), recipe_url,
                                         google_image,
                                         GetDomainName(recipe_url),
                                         Get(item.snippet, "")))
           /\ validation_tasks' = Append(validation_tasks, NewTask(google_image))
    /\ idx' = idx + 1
    /\ pc' = AfterItem
    /\ UNCHANGED <<data, upstream_calls, branch, response, finished, domain_vars>>

\* ensure_future on the first k coroutines
Schedule(tasks, k) ==
    [i \in 1..Len(tasks) |->
        IF i <= k THEN [tasks[i] EXCEPT !.sched = TRUE] ELSE tasks[i]]

\* line 151: gather wraps every coroutine in a task and the handler suspends
GatherStart ==
    /\ pc = "gather"
    /\ validation_tasks' = Schedule(validation_tasks, Len(validation_tasks))
    /\ pc' = "waiting"
    /\ UNCHANGED <<data, upstream_calls, idx, results, branch, response,
                   finished, domain_vars>>

\* the except clause with "results = []"
GatherRaisesEmpty ==
    /\ pc = "gather"
    /\ \E k \in 0..Len(validation_tasks) :
          validation_tasks' = Schedule(validation_tasks, k)
    /\ branch' = "fallback"
    /\ results' = <<>>
    /\ response' = FinalResponse(<<>>)
    /\ pc' = "returned"
    /\ UNCHANGED <<data, upstream_calls, idx, finished, domain_vars>>

\* lines 151, 162-170: gather raises an Exception after it has scheduled k of
\* the coroutines; the except clause keeps results as they are.  The tasks
\* already scheduled stay on the event loop.
GatherRaises ==
    /\ pc = "gather"
    /\ \E k \in 0..Len(validation_tasks) :
          validation_tasks' = Schedule(validation_tasks, k)
    /\ branch' = "fallback"
    /\ response' = FinalResponse(results)
    /\ pc' = "returned"
    /\ UNCHANGED <<data, upstream_calls, idx, results, finished, domain_vars>>

\* the wait returns as soon as one task is done (FIRST_COMPLETED)
GatherDoneFirst ==
    /\ pc = "waiting"
    /\ \E i \in TaskIds : validation_tasks[i].pc = "done"
    /\ LET validation_results ==
               [i \in TaskIds |-> validation_tasks[i].result]
           validated_results == FilterValidated(results, validation_results)
       IN  /\ results' = validated_results
           /\ response' = FinalResponse(validated_results)
    /\ branch' = "filtered"
    /\ pc' = "returned"
    /\ UNCHANGED <<data, upstream_calls, idx, task_vars, domain_vars>>

\* lines 151-170: every task is done, gather hands back their results in
\* the order of validation_tasks
GatherDone ==
    /\ pc = "waiting"
    /\ \A i \in TaskIds : validation_tasks[i].pc = "done"
    /\ LET validation_results ==
               [i \in TaskIds |-> validation_tasks[i].result]
           validated_results == FilterValidated(results, validation_results)
       IN  /\ results' = validated_results
           /\ response' = FinalResponse(validated_results)
    /\ branch' = "filtered"
    /\ pc' = "returned"
    /\ UNCHANGED <<data, upstream_calls, idx, task_vars, domain_vars>>

(***************************************************************************)
(* Specifications                                                          *)
(***************************************************************************)
\* one /search request.  Line 129 keeps an empty image link out of
\* validation_tasks, so ValidateEmpty has no part in a request.
Init ==
    /\ pc = "start"
    /\ data = NoData
    /\ upstream_calls = 0
    /\ idx = 0
    /\ results = <<>>
    /\ validation_tasks = <<>>
    /\ finished = <<>>
    /\ branch = "none"
    /\ response = NoResponse
    /\ dn_url = <<>>
    /\ dn_pc = "idle"
    /\ dn_out = <<>>

Next ==
    \/ UpstreamFails
    \/ UpstreamReturns
    \/ ReturnEmpty
    \/ EnterLoop
    \/ LoopSkip
    \/ LoopAppend
    \/ GatherStart
    \/ GatherRaises
    \/ GatherDone
    \/ \E i \in TaskIds : ValidateProbe(i)
    \/ \E i \in TaskIds : ValidateFinish(i, ProbeOutcomes)
    \/ \E i \in TaskIds : TaskCancelled(i)

Spec == Init /\ [][Next]_vars

\* validate_image_url awaited on its own, for every input and probe outcome
InitValidate ==
    /\ pc = "idle"
    /\ data = NoData
    /\ upstream_calls = 0
    /\ idx = 0
    /\ results = <<>>
    /\ \E u \in ValidateInputs :
          validation_tasks = <<[NewTask(u) EXCEPT !.sched = TRUE]>>
    /\ finished = <<>>
    /\ branch = "none"
    /\ response = NoResponse
    /\ dn_url = <<>>
    /\ dn_pc = "idle"
    /\ dn_out = <<>>

NextValidate ==
    \/ \E i \in TaskIds : ValidateEmpty(i)
    \/ \E i \in TaskIds : ValidateProbe(i)
    \/ \E i \in TaskIds : ValidateFinish(i, AllProbeOutcomes)

SpecValidate == InitValidate /\ [][NextValidate]_vars

\* get_domain_name called on its own, for every input
InitDomain ==
    /\ pc = "idle"
    /\ data = NoData
    /\ upstream_calls = 0
    /\ idx = 0
    /\ results = <<>>
    /\ validation_tasks = <<>>
    /\ finished = <<>>
    /\ branch = "none"
    /\ response = NoResponse
    /\ dn_url \in DomainInputs
    /\ dn_pc = "call"
    /\ dn_out = <<>>

NextDomain == CallGetDomainName

SpecDomain == InitDomain /\ [][NextDomain]_vars

(***************************************************************************)
(* Properties                                                              *)
(***************************************************************************)
\* an upstream item that carries both links
HasBothLinks(item) ==
    /\ item.contextLink.has /\ item.contextLink.v # <<>>
    /\ item.link.has /\ item.link.v # ""

ItemsWithBothLinks == SelectSeq(items, HasBothLinks)

\* the j-th smallest element of a set of indices
NthIndex(S, j) == CHOOSE i \in S : Cardinality({x \in S : x < i}) = j - 1

\* the subsequence of q at the indices in keep
Pick(q, keep) == [j \in 1..Cardinality(keep) |-> q[NthIndex(keep, j)]]

ValidIds == {i \in TaskIds : validation_tasks[i].result = "True"}

SameCandidate(r, item) ==
    /\ r.image = item.link.v
    /\ r.url = item.contextLink.v
    /\ r.title = Get(item.title, "")

SameCandidates(rs, q) ==
    /\ Len(rs) = Len(q)
    /\ \A j \in 1..Len(rs) : SameCandidate(rs[j], q[j])

\* C1: when the wait-for-all step completes normally the returned results
\* are exactly the candidates whose outcome was True, in upstream order:
\* none with a False or error outcome, none dropped, duplicated or reordered
C1_ExactlyValidated ==
    branch = "filtered" =>
        /\ Len(validation_tasks) = Len(ItemsWithBothLinks)
        /\ SameCandidates(response.results, Pick(ItemsWithBothLinks, ValidIds))

C1_Witness ==
    /\ branch = "filtered"
    /\ Len(validation_tasks) = 3
    /\ validation_tasks[1].result = "True"
    /\ validation_tasks[2].result = "False"
    /\ validation_tasks[3].result = "True"
    /\ validation_tasks[1].url # validation_tasks[3].url
    /\ Len(response.results) = 2
    /\ response.results[1].image = validation_tasks[1].url
    /\ response.results[2].image = validation_tasks[3].url

OkClass == 200..299

Finished(t) == t.pc = "done"

ReportedTotal == ParseInt(search_info.totalResults.v)

ReportedTime ==
    IF search_info.searchTime.has THEN Digits(search_info.searchTime.v)
    ELSE <<"0">>

\* C3 as stated: in every successful response total_results is the total
\* count the upstream reported and search_time the upstream search time
C3_Original ==
    response.kind = "envelope" =>
        /\ search_info.totalResults.has => response.total_results = ReportedTotal
        /\ response.search_time = ReportedTime

\* C3 amended: in every successful response search_time is the upstream
\* search time ("0" when none is reported).  total_results is the count the
\* upstream reported whenever the upstream returned at least one item and
\* reported a count, whatever passed validation; it is 0 in the response
\* returned when the upstream has no items, and the number of returned
\* results when the upstream reports no count
C3_UpstreamFields ==
    response.kind = "envelope" =>
        /\ response.search_time = ReportedTime
        /\ branch = "empty" => response.total_results = 0
        /\ (branch # "empty" /\ search_info.totalResults.has) =>
               response.total_results = ReportedTotal
        /\ (branch # "empty" /\ ~search_info.totalResults.has) =>
               response.total_results = Len(response.results)

C3_Witness ==
    /\ response.kind = "envelope"
    /\ branch = "filtered"
    /\ Len(validation_tasks) = 2
    /\ response.results = <<>>
    /\ response.total_results = 12
    /\ response.search_time = <<"3">>

\* C4: when the wait-for-all step raises, the request still succeeds and
\* returns every original candidate, unfiltered and in the original order
C4_FallbackUnfiltered ==
    branch = "fallback" =>
        /\ response.kind = "envelope"
        /\ response.status = 200
        /\ SameCandidates(response.results, ItemsWithBothLinks)
        /\ ItemsWithBothLinks # <<>> => response.results # <<>>

C4_Witness ==
    /\ branch = "fallback"
    /\ Len(response.results) = 2
    /\ response.results[1].image # response.results[2].image
    /\ \E i \in TaskIds : validation_tasks[i].result = "False"

\* C5: when the upstream request fails the request ends in a 500 that
\* carries the upstream error text; the upstream was contacted once, no
\* probe was issued and no envelope is returned
C5_UpstreamFailure ==
    (pc = "raised" /\ branch = "none") =>
        /\ response.kind = "error"
        /\ response.status = 500
        /\ \E f \in UpstreamFailures :
              response.detail \in {"Google Search API error: " \o f.text,
                                   "Search error: " \o f.text}
        /\ upstream_calls = 1
        /\ validation_tasks = <<>>
        /\ finished = <<>>
        /\ response.results = <<>>

C5_Witness ==
    /\ pc = "raised"
    /\ branch = "none"
    /\ upstream_calls = 1
    /\ response.detail = "Google Search API error: 503 Server Error"

Answered == pc \in {"returned", "raised"} /\ branch # "none"

NoProbeIssued == \A i \in TaskIds : validation_tasks[i].probes = 0

\* C6: a request with zero candidates returns an envelope with an empty
\* results list and issues no validation probe
C6_EmptyEnvelope ==
    (Answered /\ ItemsWithBothLinks = <<>>) =>
        /\ response.kind = "envelope"
        /\ response.results = <<>>
        /\ NoProbeIssued

\* C7: an item becomes a candidate exactly when it carries both links: an
\* item missing a link is never probed and never returned, on any path, and
\* candidates and validation tasks correspond position by position
C7_CandidatesHaveBothLinks ==
    /\ pc \in {"gather", "waiting"} =>
          /\ SameCandidates(results, ItemsWithBothLinks)
          /\ Len(validation_tasks) = Len(results)
    /\ pc \in {"loop", "gather", "waiting"} =>
          /\ Len(validation_tasks) = Len(results)
          /\ \A i \in TaskIds : validation_tasks[i].url = results[i].image
    /\ \A i \in TaskIds :
          \E j \in 1..Len(items) :
              /\ HasBothLinks(items[j])
              /\ validation_tasks[i].url = items[j].link.v
    /\ \A k \in 1..Len(response.results) :
          \E j \in 1..Len(items) :
              /\ HasBothLinks(items[j])
              /\ SameCandidate(response.results[k], items[j])
    /\ branch \in {"filtered", "fallback"} =>
          /\ Len(validation_tasks) = Len(ItemsWithBothLinks)
          /\ \A i \in TaskIds :
                validation_tasks[i].url = ItemsWithBothLinks[i].link.v

C7_Witness ==
    /\ branch = "fallback"
    /\ Len(items) = 3
    /\ HasBothLinks(items[1])
    /\ items[2].link.has /\ ~HasBothLinks(items[2])
    /\ HasBothLinks(items[3])
    /\ items[1].link # items[3].link
    /\ Len(response.results) = 2
    /\ validation_tasks[2].probes = 1

\* C8 as stated: in a request exactly one probe is issued per candidate
C8_Original ==
    (pc = "returned" /\ branch # "empty") =>
        \A i \in TaskIds : validation_tasks[i].probes = 1

\* C8 amended: validation is single-attempt: at most one probe is ever
\* issued per candidate (none for an empty image URL), exactly one per
\* candidate once the wait-for-all step has completed normally, and a
\* candidate whose probe has finished is never probed again and keeps its
\* outcome
C8_SingleAttempt ==
    /\ [](\A i \in TaskIds :
             /\ validation_tasks[i].probes <= 1
             /\ validation_tasks[i].url = "" => validation_tasks[i].probes = 0
             /\ branch = "filtered" => validation_tasks[i].probes = 1)
    /\ [][\A i \in TaskIds :
             Finished(validation_tasks[i]) =>
                 /\ i \in DOMAIN validation_tasks'
                 /\ validation_tasks'[i] = validation_tasks[i]]_vars

C8_Witness ==
    /\ branch = "filtered"
    /\ Len(finished) = 2
    /\ validation_tasks[finished[1]].outcome.kind = "timeout"
    /\ validation_tasks[finished[1]].result = "False"
    /\ validation_tasks[finished[1]].probes = 1
    /\ validation_tasks[finished[2]].result = "True"

\* C9: get_domain_name returns the lowercase host without a leading "www.",
\* and the sentinel "unknown", never an empty string, for an input that is
\* not an absolute URL such as "not a url"
C9_UnknownSentinel ==
    dn_pc = "returned" =>
        /\ dn_out # <<>>
        /\ dn_url = NotAUrl => dn_out = Unknown

\* C10 as stated: the response is produced only after every launched probe
\* has completed
C10_Original ==
    (pc = "returned" /\ branch # "empty") =>
        \A i \in TaskIds :
            validation_tasks[i].sched => Finished(validation_tasks[i])

ImagesOf(rs) == [j \in 1..Len(rs) |-> rs[j].image]

UrlsOf(tasks) == [j \in 1..Len(tasks) |-> tasks[j].url]

\* C10 amended: when the wait-for-all step completes normally the response
\* is produced only after every launched probe has completed, with a
\* boolean or an error, and the returned results are the same for every
\* completion order: a candidate is returned exactly when its own outcome is
\* True.  On the fallback path the response does not wait for the probes
\* already launched
C10_WaitsForAll ==
    branch = "filtered" =>
        /\ \A i \in TaskIds :
              /\ validation_tasks[i].sched
              /\ Finished(validation_tasks[i])
              /\ validation_tasks[i].result \in {"True", "False", "Exc"}
        /\ Range(finished) = TaskIds
        /\ ImagesOf(response.results) = Pick(UrlsOf(validation_tasks), ValidIds)

C10_Witness ==
    /\ branch = "filtered"
    /\ finished = <<3, 1, 2>>
    /\ validation_tasks[1].result = "True"
    /\ validation_tasks[2].result = "Exc"
    /\ validation_tasks[3].result = "False"
    /\ Len(response.results) = 1
    /\ response.results[1].image = validation_tasks[1].url

====
